---- MODULE Spec2Model ----
(***************************************************************************)
(* Key fob trigger (src/main.cpp): a BLE UART peripheral whose polling     *)
(* loop maps received text to two relay pulses.  The BLE stack delivers    *)
(* connect / disconnect / pairing / secured callbacks and accepts writes   *)
(* to the UART RX characteristic only on a link that satisfies the         *)
(* permission set in setupBLE.  Callbacks run in the stack's own task, so  *)
(* they may fire between any two statements of setup() and loop().         *)
(***************************************************************************)
EXTENDS Integers, Sequences, FiniteSets, TLC

(* ---------------------------- bounds ----------------------------------- *)
\* bytes the model lets the RX FIFO hold (the real FIFO holds 128)
MaxRx == 4
\* granularity of model time, in ms
TickMs == 100
\* number of chunks of the frames enumerated by SpecDecode
MaxChunks == 3

(* ------------------------ program constants ---------------------------- *)
LOCK_PIN == 20
UNLOCK_PIN == 22
STATUS_LED == 15
\* delay(300) in pressLock
LockHoldMs == 300
\* delay(300) in pressUnlock
UnlockHoldMs == 300
\* for (i = 0; i < 3; i++) in setup
StartupBlinks == 3

Pins == {LOCK_PIN, UNLOCK_PIN, STATUS_LED}

VARIABLES
  pc,        \* next statement of the main task (setup, then loop)
  blink,     \* the counter i of the startup blink loop
  pin,       \* level of each output pin: "FLOAT" before pinMode, "LOW", "HIGH"
  elapsed,   \* ms spent so far in the delay() of the running pulse
  rx,        \* bytes waiting in the BLE UART RX FIFO
  rxAuth,    \* history: every byte in rx was written while the Gate was Authenticated
  raw,       \* the String returned by readString(), before trim()
  cmd,       \* the local String cmd of loop()
  cmdAuth,   \* history: rxAuth of the bytes that make up cmd
  rxFrames,  \* history: the frames whose bytes are in rx, in the order they were written,
             \* each with whether a relay pin was asserted when it arrived
  rawFrames, \* history: rxFrames of the bytes that make up raw
  rxStale,   \* history: rx holds bytes of a connection that has ended since
  cmdStale,  \* history: the connection that wrote the bytes of cmd has ended since
  log,       \* side effects of loop() for the frame being processed, in order
  gate,      \* Gate state of the channel, as driven by the stack's callbacks
  link,      \* security level of the BLE link, kept by the stack
  bonded,    \* the stack holds bonding keys of the peer
  accept,    \* value returned by the last pairing_passkey_callback of this connection
  attErr,    \* the last write attempt of this connection was rejected by the GATT server
  cbOut      \* lines printed by the most recent callback

vars == <<pc, blink, pin, elapsed, rx, rxAuth, raw, cmd, cmdAuth, log,
          gate, link, bonded, accept, attErr, cbOut,
          rxFrames, rawFrames, rxStale, cmdStale>>

mainVars == <<pc, blink, pin, elapsed, raw, cmd, cmdAuth, rawFrames, log>>
stackVars == <<gate, link, bonded, accept, attErr, cbOut>>

(* ------------------------------ strings -------------------------------- *)
\* a String is a sequence of one-character strings
S_lock   == <<"l", "o", "c", "k">>
S_unlock == <<"u", "n", "l", "o", "c", "k">>
S_1      == <<"1">>
S_2      == <<"2">>
S_B11    == <<"!", "B", "1", "1">>
S_B21    == <<"!", "B", "2", "1">>
S_B31    == <<"!", "B", "3", "1">>
S_B41    == <<"!", "B", "4", "1">>
S_B10    == <<"!", "B", "1", "0">>
S_B20    == <<"!", "B", "2", "0">>

\* isspace() as used by String::trim
IsSpace(c) == c \in {" ", "\n", "\t", "\r"}

RECURSIVE TrimLeft(_)
TrimLeft(s) ==
  IF s = <<>> THEN <<>>
  ELSE IF IsSpace(Head(s)) THEN TrimLeft(Tail(s)) ELSE s

RECURSIVE TrimRight(_)
TrimRight(s) ==
  IF s = <<>> THEN <<>>
  ELSE IF IsSpace(s[Len(s)]) THEN TrimRight(SubSeq(s, 1, Len(s) - 1)) ELSE s


\* a trim that strips leading whitespace only
trim_leading_only(s) == TrimLeft(s)

\* String::trim
trim(s) == TrimRight(TrimLeft(s))

\* t occurs in s at 0-based offset k
OccursAt(s, t, k) ==
  /\ k + Len(t) <= Len(s)
  /\ \A j \in 1..Len(t) : s[k + j] = t[j]

\* String::indexOf: the first 0-based offset of t in s, or -1
indexOf(s, t) ==
  IF \E k \in 0..Len(s) : OccursAt(s, t, k)
  THEN CHOOSE k \in 0..Len(s) :
         /\ OccursAt(s, t, k)
         /\ \A m \in 0..(k - 1) : ~OccursAt(s, t, m)
  ELSE -1

(* --------------------- the branch chain of loop() ---------------------- *)
\* String::toLowerCase, on the letters of the text commands
LowerChar(c) ==
  CASE c = "L" -> "l"
    [] c = "O" -> "o"
    [] c = "C" -> "c"
    [] c = "K" -> "k"
    [] c = "U" -> "u"
    [] c = "N" -> "n"
    [] OTHER -> c

toLowerCase(s) == [k \in 1..Len(s) |-> LowerChar(s[k])]


\* a Lock test that compares the token for equality with the whole frame
IsLockCmd_exact(c) == c = S_B11 \/ c = S_lock \/ c = S_1

\* a Lock test on the lowercased command
IsLockCmd_ignore_case(c) ==
  indexOf(c, S_B11) >= 0 \/ toLowerCase(c) = S_lock \/ c = S_1

\* a Lock test that matches the button token whatever its press/release digit
IsLockCmd_any_edge(c) == indexOf(c, <<"!", "B", "1">>) >= 0 \/ c = S_lock \/ c = S_1

IsLockCmd(c) == indexOf(c, S_B11) >= 0 \/ c = S_lock \/ c = S_1

\* an Unlock test that looks only at the first character of a text command
IsUnlockCmd_prefix(c) ==
  \/ indexOf(c, S_B21) >= 0
  \/ c = S_unlock
  \/ (Len(c) > 0 /\ c[1] = "2")

IsUnlockCmd(c) == indexOf(c, S_B21) >= 0 \/ c = S_unlock \/ c = S_2

\* a test for the unassigned buttons that forgets button 4
IsUnassignedCmd_only_3(c) == indexOf(c, S_B31) >= 0

IsUnassignedCmd(c) == indexOf(c, S_B31) >= 0 \/ indexOf(c, S_B41) >= 0

\* a help test that wants more than one character
IsHelpCmd_long(c) == Len(c) > 1 /\ c[1] # "!"

\* a help test without the check of the first character
IsHelpCmd_no_bang(c) == Len(c) > 0

IsHelpCmd(c) == Len(c) > 0 /\ c[1] # "!"


\* an if / else-if chain that tests Unlock before Lock
Branch_unlock_first(c) ==
  IF IsUnlockCmd(c) THEN "Unlock"
  ELSE IF IsLockCmd(c) THEN "Lock"
  ELSE IF IsUnassignedCmd(c) THEN "Unassigned"
  ELSE IF IsHelpCmd(c) THEN "Help"
  ELSE "Silent"

\* which branch of the if / else-if chain runs for cmd
Branch(c) ==
  IF IsLockCmd(c) THEN "Lock"
  ELSE IF IsUnlockCmd(c) THEN "Unlock"
  ELSE IF IsUnassignedCmd(c) THEN "Unassigned"
  ELSE IF IsHelpCmd(c) THEN "Help"
  ELSE "Silent"

(* ----------------------------- output ---------------------------------- *)
Tx(s)  == [ch |-> "tx", txt |-> s]
Ser(s) == [ch |-> "serial", txt |-> s]
Gpio(p, v) == [ch |-> "gpio", txt |-> <<p, v>>]

digitalWrite(p, v) == pin' = [pin EXCEPT ![p] = v]

Asserted(p) == pin[p] = "HIGH"

\* a relay pulse is in progress
PulseActive == Asserted(LOCK_PIN) \/ Asserted(UNLOCK_PIN)

(* ------------------------- transport security -------------------------- *)
\* the UART service started without a security requirement
RxWritePermission_open == "OPEN"

\* bleuart.setPermission(SECMODE_ENC_WITH_MITM, SECMODE_ENC_WITH_MITM)
RxWritePermission == "ENC_WITH_MITM"

\* the GATT server's permission check of a write on a link of level l
SecModeSatisfied(perm, l) ==
  CASE perm = "OPEN" -> l \in {"open", "enc_mitm"}
    [] perm = "ENC_WITH_MITM" -> l = "enc_mitm"
    [] OTHER -> FALSE

\* the channel may invoke actions: its writes reach the RX FIFO
is_authorized == SecModeSatisfied(RxWritePermission, link)

(* ------------------------------ frames --------------------------------- *)
\* the frames a peer writes in Spec
Frames ==
  { S_lock, S_2, S_B31, <<"L", "o", "c", "k">>, S_B10 }

\* the pieces the frames of SpecDecode are built from
Chunks ==
  { S_lock, <<"u", "n">>, <<"1">>, <<"2">>, <<"0">>,
    <<"!", "B", "1">>, <<"!", "B", "2">>, <<"!", "B", "3">>, <<"!", "B", "4">>,
    <<" ">>, <<"\n">>, <<"x">>, <<"L", "o", "c", "k">>, S_B11 }

RECURSIVE ChunkFrames(_)
ChunkFrames(n) ==
  IF n = 0 THEN { <<>> }
  ELSE LET shorter == ChunkFrames(n - 1)
       IN shorter \cup { f \o c : f \in shorter, c \in Chunks }

\* connection handles the stack hands to the callbacks
ConnHandles == {0, 1}

Passkeys == { <<"1", "2", "3", "4", "5", "6">>, <<"0", "0", "0", "7", "0", "0">> }

(* ------------------------------ setup() -------------------------------- *)
Init ==
  /\ pc = "setup"
  /\ blink = 0
  /\ pin = [p \in Pins |-> "FLOAT"]
  /\ elapsed = 0
  /\ rx = <<>>
  /\ rxAuth = TRUE
  /\ raw = <<>>
  /\ cmd = <<>>
  /\ cmdAuth = TRUE
  /\ rxFrames = <<>>
  /\ rawFrames = <<>>
  /\ rxStale = FALSE
  /\ cmdStale = FALSE
  /\ log = <<>>
  /\ gate = "Disconnected"
  /\ link = "down"
  /\ bonded = FALSE
  /\ accept = FALSE
  /\ attErr = FALSE
  /\ cbOut = <<>>

\* setup() that drives UNLOCK_PIN HIGH instead of LOW
setup_pins_unlock_high ==
  /\ pc = "setup"
  /\ pin' = [p \in Pins |-> IF p = UNLOCK_PIN THEN "HIGH" ELSE "LOW"]
  /\ pc' = "setupBLE"
  /\ UNCHANGED <<blink, elapsed, rx, rxAuth, rxFrames, rxStale, cmdStale, raw, cmd, cmdAuth, rawFrames, log>>
  /\ UNCHANGED stackVars

\* setup(), up to the call of setupBLE: all three outputs are driven LOW
setup_pins ==
  /\ pc = "setup"
  /\ pin' = [p \in Pins |-> "LOW"]
  /\ pc' = "setupBLE"
  /\ UNCHANGED <<blink, elapsed, rx, rxAuth, rxFrames, rxStale, cmdStale, raw, cmd, cmdAuth, rawFrames, log>>
  /\ UNCHANGED stackVars

\* setupBLE(): the callbacks are registered, the UART service is started with
\* its permission and advertising begins, so connections are possible from here on
setupBLE ==
  /\ pc = "setupBLE"
  /\ pc' = "blink_on"
  /\ blink' = 0
  /\ UNCHANGED <<pin, elapsed, rx, rxAuth, rxFrames, rxStale, cmdStale, raw, cmd, cmdAuth, rawFrames, log>>
  /\ UNCHANGED stackVars

\* startup blinks: digitalWrite(STATUS_LED, HIGH); delay(200);
setup_blink_on ==
  /\ pc = "blink_on"
  /\ blink < StartupBlinks
  /\ digitalWrite(STATUS_LED, "HIGH")
  /\ pc' = "blink_off"
  /\ UNCHANGED <<blink, elapsed, rx, rxAuth, rxFrames, rxStale, cmdStale, raw, cmd, cmdAuth, rawFrames, log>>
  /\ UNCHANGED stackVars

\* digitalWrite(STATUS_LED, LOW); delay(200); i++
setup_blink_off ==
  /\ pc = "blink_off"
  /\ digitalWrite(STATUS_LED, "LOW")
  /\ blink' = blink + 1
  /\ pc' = "blink_on"
  /\ UNCHANGED <<elapsed, rx, rxAuth, rxFrames, rxStale, cmdStale, raw, cmd, cmdAuth, rawFrames, log>>
  /\ UNCHANGED stackVars

\* the blink loop ends and setup() returns; loop() runs from now on
setup_return ==
  /\ pc = "blink_on"
  /\ blink >= StartupBlinks
  /\ pc' = "idle"
  /\ blink' = 0
  /\ UNCHANGED <<pin, elapsed, rx, rxAuth, rxFrames, rxStale, cmdStale, raw, cmd, cmdAuth, rawFrames, log>>
  /\ UNCHANGED stackVars

Advertising == pc \notin {"setup", "setupBLE"}

(* ------------------------------- loop() -------------------------------- *)
\* if (bleuart.available()) { cmd = bleuart.readString(); cmd.trim(); ... }
\* readString takes every byte that is in the FIFO
loop_read ==
  /\ pc = "idle"
  /\ rx # <<>>
  /\ raw' = rx
  /\ cmd' = trim(rx)
  /\ cmdAuth' = rxAuth
  /\ rawFrames' = rxFrames
  /\ cmdStale' = rxStale
  /\ rx' = <<>>
  /\ rxAuth' = TRUE
  /\ rxFrames' = <<>>
  /\ rxStale' = FALSE
  /\ log' = << Ser(<<"Received: ">>) >>
  /\ pc' = "dispatch"
  /\ UNCHANGED <<blink, pin, elapsed>>
  /\ UNCHANGED stackVars


\* a dispatcher that checks the Gate itself before it presses Lock
loop_lock_checked ==
  /\ pc = "dispatch"
  /\ Branch(cmd) = "Lock"
  /\ pc' = (IF gate = "Authenticated" THEN "pressLock" ELSE "return")
  /\ UNCHANGED <<blink, pin, elapsed, rx, rxAuth, rxFrames, rxStale, cmdStale, raw, cmd, cmdAuth, rawFrames, log>>
  /\ UNCHANGED stackVars

loop_lock ==
  /\ pc = "dispatch"
  /\ Branch(cmd) = "Lock"
  /\ pc' = "pressLock"
  /\ UNCHANGED <<blink, pin, elapsed, rx, rxAuth, rxFrames, rxStale, cmdStale, raw, cmd, cmdAuth, rawFrames, log>>
  /\ UNCHANGED stackVars

loop_unlock ==
  /\ pc = "dispatch"
  /\ Branch(cmd) = "Unlock"
  /\ pc' = "pressUnlock"
  /\ UNCHANGED <<blink, pin, elapsed, rx, rxAuth, rxFrames, rxStale, cmdStale, raw, cmd, cmdAuth, rawFrames, log>>
  /\ UNCHANGED stackVars


\* an unassigned-button branch that marks the channel Authenticated
loop_unassigned_authenticates ==
  /\ pc = "dispatch"
  /\ Branch(cmd) = "Unassigned"
  /\ log' = Append(log, Ser(<<"Button not assigned">>))
  /\ pc' = "return"
  /\ gate' = (IF gate = "Disconnected" THEN gate ELSE "Authenticated")
  /\ UNCHANGED <<blink, pin, elapsed, rx, rxAuth, rxFrames, rxStale, cmdStale, raw, cmd, cmdAuth, rawFrames>>
  /\ UNCHANGED <<link, bonded, accept, attErr, cbOut>>

\* Serial.println("Button not assigned")
loop_unassigned ==
  /\ pc = "dispatch"
  /\ Branch(cmd) = "Unassigned"
  /\ log' = Append(log, Ser(<<"Button not assigned">>))
  /\ pc' = "return"
  /\ UNCHANGED <<blink, pin, elapsed, rx, rxAuth, rxFrames, rxStale, cmdStale, raw, cmd, cmdAuth, rawFrames>>
  /\ UNCHANGED stackVars


\* a help branch that answers an Authenticated channel only
loop_help_checked ==
  /\ pc = "dispatch"
  /\ Branch(cmd) = "Help"
  /\ log' = (IF gate = "Authenticated"
             THEN log \o << Tx(<<"Commands: lock, unlock, 1, 2">>),
                            Tx(<<"Or use Controller buttons 1-2">>) >>
             ELSE log)
  /\ pc' = "return"
  /\ UNCHANGED <<blink, pin, elapsed, rx, rxAuth, rxFrames, rxStale, cmdStale, raw, cmd, cmdAuth, rawFrames>>
  /\ UNCHANGED stackVars

loop_help ==
  /\ pc = "dispatch"
  /\ Branch(cmd) = "Help"
  /\ log' = log \o << Tx(<<"Commands: lock, unlock, 1, 2">>),
                      Tx(<<"Or use Controller buttons 1-2">>) >>
  /\ pc' = "return"
  /\ UNCHANGED <<blink, pin, elapsed, rx, rxAuth, rxFrames, rxStale, cmdStale, raw, cmd, cmdAuth, rawFrames>>
  /\ UNCHANGED stackVars

loop_silent ==
  /\ pc = "dispatch"
  /\ Branch(cmd) = "Silent"
  /\ pc' = "return"
  /\ UNCHANGED <<blink, pin, elapsed, rx, rxAuth, rxFrames, rxStale, cmdStale, raw, cmd, cmdAuth, rawFrames, log>>
  /\ UNCHANGED stackVars


\* a loop() that decodes the same String again instead of returning
loop_return_again ==
  /\ pc = "return"
  /\ pc' = "dispatch"
  /\ log' = << Ser(<<"Received: ">>) >>
  /\ UNCHANGED <<blink, pin, elapsed, rx, rxAuth, rxFrames, rxStale, cmdStale, raw, cmd, cmdAuth, rawFrames>>
  /\ UNCHANGED stackVars

\* loop() returns: cmd goes out of scope
loop_return ==
  /\ pc = "return"
  /\ pc' = "idle"
  /\ raw' = <<>>
  /\ cmd' = <<>>
  /\ cmdAuth' = TRUE
  /\ rawFrames' = <<>>
  /\ cmdStale' = FALSE
  /\ log' = <<>>
  /\ UNCHANGED <<blink, pin, elapsed, rx, rxAuth, rxFrames, rxStale>>
  /\ UNCHANGED stackVars

(* ----------------------------- pressLock() ----------------------------- *)
pressLock_begin ==
  /\ pc = "pressLock"
  /\ log' = log \o << Ser(<<">>> LOCK">>), Tx(<<"Locking...">>) >>
  /\ pc' = "lock_led_on"
  /\ UNCHANGED <<blink, pin, elapsed, rx, rxAuth, rxFrames, rxStale, cmdStale, raw, cmd, cmdAuth, rawFrames>>
  /\ UNCHANGED stackVars

pressLock_led_on ==
  /\ pc = "lock_led_on"
  /\ digitalWrite(STATUS_LED, "HIGH")
  /\ log' = Append(log, Gpio(STATUS_LED, "HIGH"))
  /\ pc' = "lock_assert"
  /\ UNCHANGED <<blink, elapsed, rx, rxAuth, rxFrames, rxStale, cmdStale, raw, cmd, cmdAuth, rawFrames>>
  /\ UNCHANGED stackVars

pressLock_assert ==
  /\ pc = "lock_assert"
  /\ digitalWrite(LOCK_PIN, "HIGH")
  /\ log' = Append(log, Gpio(LOCK_PIN, "HIGH"))
  /\ elapsed' = 0
  /\ pc' = "lock_delay"
  /\ UNCHANGED <<blink, rx, rxAuth, rxFrames, rxStale, cmdStale, raw, cmd, cmdAuth, rawFrames>>
  /\ UNCHANGED stackVars

\* pressLock without its digitalWrite(LOCK_PIN, LOW)
pressLock_release_missing ==
  /\ pc = "lock_delay"
  /\ elapsed >= LockHoldMs
  /\ elapsed' = 0
  /\ pc' = "lock_led_off"
  /\ UNCHANGED <<blink, pin, rx, rxAuth, rxFrames, rxStale, cmdStale, raw, cmd, cmdAuth, rawFrames, log>>
  /\ UNCHANGED stackVars

\* delay(300) has returned: digitalWrite(LOCK_PIN, LOW)
pressLock_release ==
  /\ pc = "lock_delay"
  /\ elapsed >= LockHoldMs
  /\ digitalWrite(LOCK_PIN, "LOW")
  /\ log' = Append(log, Gpio(LOCK_PIN, "LOW"))
  /\ elapsed' = 0
  /\ pc' = "lock_led_off"
  /\ UNCHANGED <<blink, rx, rxAuth, rxFrames, rxStale, cmdStale, raw, cmd, cmdAuth, rawFrames>>
  /\ UNCHANGED stackVars

\* pressLock that prints its completion lines before switching the indicator off
pressLock_led_off_late ==
  /\ pc = "lock_led_off"
  /\ log' = log \o << Ser(<<">>> LOCK COMPLETE">>), Tx(<<"Locked!">>) >>
  /\ pc' = "lock_complete"
  /\ UNCHANGED <<blink, pin, elapsed, rx, rxAuth, rxFrames, rxStale, cmdStale, raw, cmd, cmdAuth, rawFrames>>
  /\ UNCHANGED stackVars

pressLock_led_off ==
  /\ pc = "lock_led_off"
  /\ digitalWrite(STATUS_LED, "LOW")
  /\ log' = Append(log, Gpio(STATUS_LED, "LOW"))
  /\ pc' = "lock_complete"
  /\ UNCHANGED <<blink, elapsed, rx, rxAuth, rxFrames, rxStale, cmdStale, raw, cmd, cmdAuth, rawFrames>>
  /\ UNCHANGED stackVars

pressLock_complete ==
  /\ pc = "lock_complete"
  /\ log' = log \o << Ser(<<">>> LOCK COMPLETE">>), Tx(<<"Locked!">>) >>
  /\ pc' = "return"
  /\ UNCHANGED <<blink, pin, elapsed, rx, rxAuth, rxFrames, rxStale, cmdStale, raw, cmd, cmdAuth, rawFrames>>
  /\ UNCHANGED stackVars

(* ---------------------------- pressUnlock() ---------------------------- *)
pressUnlock_begin ==
  /\ pc = "pressUnlock"
  /\ log' = log \o << Ser(<<">>> UNLOCK">>), Tx(<<"Unlocking...">>) >>
  /\ pc' = "unlock_led_on"
  /\ UNCHANGED <<blink, pin, elapsed, rx, rxAuth, rxFrames, rxStale, cmdStale, raw, cmd, cmdAuth, rawFrames>>
  /\ UNCHANGED stackVars

pressUnlock_led_on ==
  /\ pc = "unlock_led_on"
  /\ digitalWrite(STATUS_LED, "HIGH")
  /\ log' = Append(log, Gpio(STATUS_LED, "HIGH"))
  /\ pc' = "unlock_assert"
  /\ UNCHANGED <<blink, elapsed, rx, rxAuth, rxFrames, rxStale, cmdStale, raw, cmd, cmdAuth, rawFrames>>
  /\ UNCHANGED stackVars

pressUnlock_assert ==
  /\ pc = "unlock_assert"
  /\ digitalWrite(UNLOCK_PIN, "HIGH")
  /\ log' = Append(log, Gpio(UNLOCK_PIN, "HIGH"))
  /\ elapsed' = 0
  /\ pc' = "unlock_delay"
  /\ UNCHANGED <<blink, rx, rxAuth, rxFrames, rxStale, cmdStale, raw, cmd, cmdAuth, rawFrames>>
  /\ UNCHANGED stackVars

\* pressUnlock that writes LOW to the wrong pin after the delay
pressUnlock_release_wrong_pin ==
  /\ pc = "unlock_delay"
  /\ elapsed >= UnlockHoldMs
  /\ digitalWrite(LOCK_PIN, "LOW")
  /\ log' = Append(log, Gpio(LOCK_PIN, "LOW"))
  /\ elapsed' = 0
  /\ pc' = "unlock_led_off"
  /\ UNCHANGED <<blink, rx, rxAuth, rxFrames, rxStale, cmdStale, raw, cmd, cmdAuth, rawFrames>>
  /\ UNCHANGED stackVars

\* delay(300) has returned: digitalWrite(UNLOCK_PIN, LOW)
pressUnlock_release ==
  /\ pc = "unlock_delay"
  /\ elapsed >= UnlockHoldMs
  /\ digitalWrite(UNLOCK_PIN, "LOW")
  /\ log' = Append(log, Gpio(UNLOCK_PIN, "LOW"))
  /\ elapsed' = 0
  /\ pc' = "unlock_led_off"
  /\ UNCHANGED <<blink, rx, rxAuth, rxFrames, rxStale, cmdStale, raw, cmd, cmdAuth, rawFrames>>
  /\ UNCHANGED stackVars


\* a pressUnlock() that leaves the status LED on
pressUnlock_led_off_missing ==
  /\ pc = "unlock_led_off"
  /\ log' = Append(log, Gpio(STATUS_LED, "LOW"))
  /\ pc' = "unlock_complete"
  /\ UNCHANGED <<blink, pin, elapsed, rx, rxAuth, rxFrames, rxStale, cmdStale, raw, cmd, cmdAuth, rawFrames>>
  /\ UNCHANGED stackVars

pressUnlock_led_off ==
  /\ pc = "unlock_led_off"
  /\ digitalWrite(STATUS_LED, "LOW")
  /\ log' = Append(log, Gpio(STATUS_LED, "LOW"))
  /\ pc' = "unlock_complete"
  /\ UNCHANGED <<blink, elapsed, rx, rxAuth, rxFrames, rxStale, cmdStale, raw, cmd, cmdAuth, rawFrames>>
  /\ UNCHANGED stackVars

\* pressUnlock with the completion lines copied from pressLock
pressUnlock_complete_copied ==
  /\ pc = "unlock_complete"
  /\ log' = log \o << Ser(<<">>> LOCK COMPLETE">>), Tx(<<"Locked!">>) >>
  /\ pc' = "return"
  /\ UNCHANGED <<blink, pin, elapsed, rx, rxAuth, rxFrames, rxStale, cmdStale, raw, cmd, cmdAuth, rawFrames>>
  /\ UNCHANGED stackVars

pressUnlock_complete ==
  /\ pc = "unlock_complete"
  /\ log' = log \o << Ser(<<">>> UNLOCK COMPLETE">>), Tx(<<"Unlocked!">>) >>
  /\ pc' = "return"
  /\ UNCHANGED <<blink, pin, elapsed, rx, rxAuth, rxFrames, rxStale, cmdStale, raw, cmd, cmdAuth, rawFrames>>
  /\ UNCHANGED stackVars

(* ------------------------------- time ---------------------------------- *)
\* the delay() the main task is blocked in, in ms; 0 when it is in none
DelayMs ==
  CASE pc = "lock_delay" -> LockHoldMs
    [] pc = "unlock_delay" -> UnlockHoldMs
    [] OTHER -> 0

Min(a, b) == IF a <= b THEN a ELSE b

\* time passes while the main task sleeps in delay(); delay() returns when its
\* time is up, and the statements between two delays take no model time
Tick ==
  /\ elapsed < DelayMs
  /\ elapsed' = Min(elapsed + TickMs, DelayMs)
  /\ UNCHANGED <<pc, blink, pin, rx, rxAuth, rxFrames, rxStale, cmdStale, raw, cmd, cmdAuth, rawFrames, log>>
  /\ UNCHANGED stackVars

(* ------------------------ the BLE stack's events ----------------------- *)
\* a connect from a bonded peer that is taken as secured at once
connect_callback_bonded_secured ==
  /\ Advertising
  /\ gate = "Disconnected"
  /\ gate' = (IF bonded THEN "Authenticated" ELSE "Unauthenticated")
  /\ link' = (IF bonded THEN "enc_mitm" ELSE "open")
  /\ accept' = FALSE
  /\ attErr' = FALSE
  /\ cbOut' = << Ser(<<"BLE Connected!">>),
                 Tx(<<"===== KEYFOB READY =====">>),
                 Tx(<<"Button 1 = LOCK">>),
                 Tx(<<"Button 2 = UNLOCK">>) >>
  /\ UNCHANGED <<bonded, rx, rxAuth, rxFrames, rxStale, cmdStale>>
  /\ UNCHANGED mainVars

connect_callback ==
  /\ Advertising
  /\ gate = "Disconnected"
  /\ gate' = "Unauthenticated"
  /\ link' = "open"
  /\ accept' = FALSE
  /\ attErr' = FALSE
  /\ cbOut' = << Ser(<<"BLE Connected!">>),
                 Tx(<<"===== KEYFOB READY =====">>),
                 Tx(<<"Button 1 = LOCK">>),
                 Tx(<<"Button 2 = UNLOCK">>) >>
  /\ UNCHANGED <<bonded, rx, rxAuth, rxFrames, rxStale, cmdStale>>
  /\ UNCHANGED mainVars



\* a disconnect callback that also switches the status LED off
disconnect_callback_led_off ==
  /\ gate # "Disconnected"
  /\ gate' = "Disconnected"
  /\ link' = "down"
  /\ accept' = FALSE
  /\ attErr' = FALSE
  /\ cbOut' = << Ser(<<"BLE Disconnected">>) >>
  /\ rxStale' = (rx # <<>>)
  /\ cmdStale' = (raw # <<>>)
  /\ pin' = [pin EXCEPT ![STATUS_LED] = "LOW"]
  /\ UNCHANGED <<bonded, rx, rxAuth, rxFrames>>
  /\ UNCHANGED <<pc, blink, elapsed, raw, cmd, cmdAuth, rawFrames, log>>

\* a disconnect callback that also drives both relay pins LOW
disconnect_callback_releases ==
  /\ gate # "Disconnected"
  /\ gate' = "Disconnected"
  /\ link' = "down"
  /\ accept' = FALSE
  /\ attErr' = FALSE
  /\ cbOut' = << Ser(<<"BLE Disconnected">>) >>
  /\ rxStale' = (rx # <<>>)
  /\ cmdStale' = (raw # <<>>)
  /\ pin' = [pin EXCEPT ![LOCK_PIN] = "LOW", ![UNLOCK_PIN] = "LOW"]
  /\ UNCHANGED <<bonded, rx, rxAuth, rxFrames>>
  /\ UNCHANGED <<pc, blink, elapsed, raw, cmd, cmdAuth, rawFrames, log>>

disconnect_callback ==
  /\ gate # "Disconnected"
  /\ gate' = "Disconnected"
  /\ link' = "down"
  /\ accept' = FALSE
  /\ attErr' = FALSE
  /\ cbOut' = << Ser(<<"BLE Disconnected">>) >>
  /\ rxStale' = (rx # <<>>)
  /\ cmdStale' = (raw # <<>>)
  /\ UNCHANGED <<bonded, rx, rxAuth, rxFrames>>
  /\ UNCHANGED mainVars

\* a passkey callback that accepts only passkey entry, not numeric comparison
pairing_passkey_callback_no_compare(conn_handle, passkey, match_request) ==
  /\ gate # "Disconnected"
  /\ gate' = (IF gate = "Authenticated" THEN gate ELSE "PairingInProgress")
  /\ accept' = ~match_request
  /\ cbOut' = << Ser(<<"  PAIRING REQUEST">>),
                 Ser(<<"Enter this PIN on your phone: ">> \o passkey),
                 Tx(<<"Pairing PIN: ">> \o passkey) >>
  /\ UNCHANGED <<link, bonded, attErr, rx, rxAuth, rxFrames, rxStale, cmdStale>>
  /\ UNCHANGED mainVars

\* a pairing request that puts a secured channel back into pairing
pairing_passkey_callback_restart(conn_handle, passkey, match_request) ==
  /\ gate # "Disconnected"
  /\ gate' = "PairingInProgress"
  /\ link' = "open"
  /\ accept' = TRUE
  /\ cbOut' = << Ser(<<"  PAIRING REQUEST">>),
                 Ser(<<"Enter this PIN on your phone: ">> \o passkey),
                 Tx(<<"Pairing PIN: ">> \o passkey) >>
  /\ UNCHANGED <<bonded, attErr, rx, rxAuth, rxFrames, rxStale, cmdStale>>
  /\ UNCHANGED mainVars

\* the peer asks for pairing and the stack shows the passkey; on a link that is
\* already secured the old keys stay in use while the new pairing runs
pairing_passkey_callback(conn_handle, passkey, match_request) ==
  /\ gate # "Disconnected"
  /\ gate' = (IF gate = "Authenticated" THEN gate ELSE "PairingInProgress")
  /\ accept' = TRUE
  /\ cbOut' = << Ser(<<"  PAIRING REQUEST">>),
                 Ser(<<"Enter this PIN on your phone: ">> \o passkey),
                 Tx(<<"Pairing PIN: ">> \o passkey) >>
  /\ UNCHANGED <<link, bonded, attErr, rx, rxAuth, rxFrames, rxStale, cmdStale>>
  /\ UNCHANGED mainVars

\* a secured_callback that prints a single line on the channel
SecuredOut_one_line ==
  << Ser(<<"Connection secured (encrypted & authenticated)">>),
     Tx(<<">>> DEVICE PAIRED <<<">>) >>

\* what secured_callback prints
SecuredOut ==
  << Ser(<<"Connection secured (encrypted & authenticated)">>),
     Tx(<<">>> DEVICE PAIRED <<<">>),
     Tx(<<"Connection secured!">>) >>

\* a stack that reports any connected link as secured
secured_callback_unguarded ==
  /\ gate # "Disconnected"
  /\ gate' = "Authenticated"
  /\ link' = "enc_mitm"
  /\ bonded' = TRUE
  /\ cbOut' = SecuredOut
  /\ UNCHANGED <<accept, attErr, rx, rxAuth, rxFrames, rxStale, cmdStale>>
  /\ UNCHANGED mainVars

\* the link is encrypted and authenticated: after an accepted pairing, or with
\* the stored keys of a bonded peer
secured_callback ==
  /\ \/ gate \in {"PairingInProgress", "Authenticated"} /\ accept
     \/ gate = "Unauthenticated" /\ bonded
  /\ gate' = "Authenticated"
  /\ link' = "enc_mitm"
  /\ bonded' = TRUE
  /\ cbOut' = SecuredOut
  /\ UNCHANGED <<accept, attErr, rx, rxAuth, rxFrames, rxStale, cmdStale>>
  /\ UNCHANGED mainVars

\* a GATT server that accepts the write whatever the security of the link
rx_write_unchecked(f) ==
  /\ gate # "Disconnected"
  /\ Len(rx) + Len(f) <= MaxRx
  /\ rx' = rx \o f
  /\ rxAuth' = (rxAuth /\ gate = "Authenticated")
  /\ rxFrames' = Append(rxFrames, [f |-> f, busy |-> PulseActive])
  /\ attErr' = FALSE
  /\ UNCHANGED <<rxStale, cmdStale>>
  /\ UNCHANGED <<gate, link, bonded, accept, cbOut>>
  /\ UNCHANGED mainVars

\* the peer writes frame f to the RX characteristic and the GATT server accepts it
rx_write(f) ==
  /\ gate # "Disconnected"
  /\ is_authorized
  /\ Len(rx) + Len(f) <= MaxRx
  /\ rx' = rx \o f
  /\ rxAuth' = (rxAuth /\ gate = "Authenticated")
  /\ rxFrames' = Append(rxFrames, [f |-> f, busy |-> PulseActive])
  /\ attErr' = FALSE
  /\ UNCHANGED <<rxStale, cmdStale>>
  /\ UNCHANGED <<gate, link, bonded, accept, cbOut>>
  /\ UNCHANGED mainVars

\* the peer writes to the RX characteristic and the GATT server rejects the write
rx_write_rejected ==
  /\ gate # "Disconnected"
  /\ ~is_authorized
  /\ attErr' = TRUE
  /\ UNCHANGED <<gate, link, bonded, accept, cbOut, rx, rxAuth, rxFrames, rxStale, cmdStale>>
  /\ UNCHANGED mainVars

(* --------------------------- specifications ---------------------------- *)
SetupStep ==
  \/ setup_pins
  \/ setupBLE
  \/ setup_blink_on
  \/ setup_blink_off
  \/ setup_return

LoopStep ==
  \/ loop_read
  \/ loop_lock
  \/ loop_unlock
  \/ loop_unassigned
  \/ loop_help
  \/ loop_silent
  \/ loop_return
  \/ pressLock_begin
  \/ pressLock_led_on
  \/ pressLock_assert
  \/ pressLock_release
  \/ pressLock_led_off
  \/ pressLock_complete
  \/ pressUnlock_begin
  \/ pressUnlock_led_on
  \/ pressUnlock_assert
  \/ pressUnlock_release
  \/ pressUnlock_led_off
  \/ pressUnlock_complete

StackStep ==
  \/ connect_callback
  \/ disconnect_callback
  \/ \E conn_handle \in ConnHandles, passkey \in Passkeys, match_request \in BOOLEAN :
       pairing_passkey_callback(conn_handle, passkey, match_request)
  \/ secured_callback
  \/ \E f \in Frames : rx_write(f)
  \/ rx_write_rejected

MainStep == SetupStep \/ LoopStep

Next == MainStep \/ Tick \/ StackStep

Spec == Init /\ [][Next]_vars

\* the main task is always scheduled again and time does not stop
FairSpec == Spec /\ WF_vars(MainStep) /\ WF_vars(Tick)

\* loop() on one read of arbitrary bytes written by an authenticated peer
InitDecode ==
  /\ pc = "idle"
  /\ blink = 0
  /\ pin = [p \in Pins |-> "LOW"]
  /\ elapsed = 0
  /\ rx \in ChunkFrames(MaxChunks) \ { <<>> }
  /\ rxAuth = TRUE
  /\ raw = <<>>
  /\ cmd = <<>>
  /\ cmdAuth = TRUE
  /\ rxFrames = << [f |-> rx, busy |-> FALSE] >>
  /\ rawFrames = <<>>
  /\ rxStale = FALSE
  /\ cmdStale = FALSE
  /\ log = <<>>
  /\ gate = "Authenticated"
  /\ link = "enc_mitm"
  /\ bonded = TRUE
  /\ accept = TRUE
  /\ attErr = FALSE
  /\ cbOut = SecuredOut

NextDecode == LoopStep \/ Tick

SpecDecode == InitDecode /\ [][NextDecode]_vars

TypeOK ==
  /\ pin \in [Pins -> {"FLOAT", "LOW", "HIGH"}]
  /\ elapsed \in 0..LockHoldMs
  /\ gate \in {"Disconnected", "Unauthenticated", "PairingInProgress", "Authenticated"}
  /\ link \in {"down", "open", "enc_mitm"}
  /\ rxAuth \in BOOLEAN /\ cmdAuth \in BOOLEAN /\ bonded \in BOOLEAN
  /\ rxStale \in BOOLEAN /\ cmdStale \in BOOLEAN
  /\ accept \in BOOLEAN /\ attErr \in BOOLEAN

(* ------------------------- observers of a run -------------------------- *)
LockPcs ==
  {"pressLock", "lock_led_on", "lock_assert", "lock_delay", "lock_led_off", "lock_complete"}

UnlockPcs ==
  {"pressUnlock", "unlock_led_on", "unlock_assert", "unlock_delay", "unlock_led_off",
   "unlock_complete"}

\* loop() has chosen its branch for cmd
Dispatched == pc \in LockPcs \cup UnlockPcs \cup {"return"}

Range(q) == { q[k] : k \in 1..Len(q) }

IsPrefix(a, b) == Len(a) <= Len(b) /\ SubSeq(b, 1, Len(a)) = a

IsRelayEvent(e) == e.ch = "gpio" /\ e.txt[1] \in {LOCK_PIN, UNLOCK_PIN}

IsEffect(e) == e.ch \in {"gpio", "tx"}

\* the branch loop() has taken for cmd, read off what it did
Taken ==
  IF pc \in LockPcs \/ Tx(<<"Locked!">>) \in Range(log) THEN "Lock"
  ELSE IF pc \in UnlockPcs \/ Tx(<<"Unlocked!">>) \in Range(log) THEN "Unlock"
  ELSE IF Ser(<<"Button not assigned">>) \in Range(log) THEN "Unassigned"
  ELSE IF Tx(<<"Commands: lock, unlock, 1, 2">>) \in Range(log) THEN "Help"
  ELSE "Silent"

\* the hold duration the specification gives, in ms
HoldDeadlineMs == 300

(* ------------------------------- claims -------------------------------- *)

\* C1 as stated: a relay pin is Asserted only while the connected channel is
\* Authenticated.
C1_PinOnlyWhileAuthenticated ==
  (Asserted(LOCK_PIN) \/ Asserted(UNLOCK_PIN)) => gate = "Authenticated"

\* C1 amended: every byte in the RX FIFO and every command being processed was
\* written by a channel that was Authenticated when it wrote it, and a relay
\* pin is Asserted only while such a command is being processed.
C1_PinOnlyForAuthenticatedFrame ==
  /\ rxAuth
  /\ cmdAuth
  /\ (Asserted(LOCK_PIN) \/ Asserted(UNLOCK_PIN)) =>
       (pc \in {"lock_delay", "unlock_delay"} /\ Branch(cmd) \in {"Lock", "Unlock"})

\* a pulse runs for a frame of an earlier connection while the write of a new,
\* unauthenticated channel has just been rejected
C1_Witness ==
  /\ Asserted(LOCK_PIN)
  /\ cmdAuth
  /\ attErr
  /\ gate = "Unauthenticated"
  /\ rx = <<>>

\* C2: is_authorized holds iff the Gate is Authenticated; it is false right
\* after connect and through pairing, also once the passkey callback has
\* returned true, and it becomes true only in a step of secured_callback.
C2_AuthorizedIffAuthenticated ==
  /\ [](is_authorized <=> gate = "Authenticated")
  /\ [](gate = "PairingInProgress" => (accept /\ ~is_authorized))
  /\ [][gate = "Disconnected" => ~is_authorized']_vars
  /\ [][(~is_authorized /\ is_authorized') =>
          (gate \in {"Unauthenticated", "PairingInProgress"} /\ cbOut' = SecuredOut)]_vars

\* pairing is in progress, the passkey callback has returned true, the peer is
\* even bonded from an earlier connection, and its write has been rejected
C2_Witness ==
  /\ gate = "PairingInProgress"
  /\ accept
  /\ bonded
  /\ attErr
  /\ ~is_authorized

\* C3: a disconnect discards the authorization, and the connect that follows
\* starts Unauthenticated and unauthorized, whether the peer is bonded or not;
\* the channel stays unauthorized until secured_callback fires again.
C3_DisconnectDiscardsAuthorization ==
  /\ [][gate' = "Disconnected" => ~is_authorized']_vars
  /\ [][(gate = "Disconnected" /\ gate' # "Disconnected") =>
          (gate' = "Unauthenticated" /\ ~is_authorized')]_vars
  /\ [][(gate # "Authenticated" /\ gate' = "Authenticated") => cbOut' = SecuredOut]_vars
  /\ [](gate # "Authenticated" => ~is_authorized)

\* a bonded peer has connected again and secured_callback has not fired yet
C3_Witness ==
  /\ gate = "Unauthenticated"
  /\ bonded
  /\ ~is_authorized
  /\ cbOut # SecuredOut

\* C4: LOCK_PIN and UNLOCK_PIN are never Asserted together.
C4_NoOverlap == ~(Asserted(LOCK_PIN) /\ Asserted(UNLOCK_PIN))

\* an Unlock pulse is running while a Lock frame waits in the RX FIFO
C4_Witness ==
  /\ Asserted(UNLOCK_PIN)
  /\ pc = "unlock_delay"
  /\ Branch(trim(rx)) = "Lock"

C6_AssertedOnlyInHold ==
  /\ Asserted(LOCK_PIN) => (pc = "lock_delay" /\ Branch(cmd) = "Lock")
  /\ Asserted(UNLOCK_PIN) => (pc = "unlock_delay" /\ Branch(cmd) = "Unlock")
  /\ pc = "idle" => (pin[LOCK_PIN] = "LOW" /\ pin[UNLOCK_PIN] = "LOW")

\* loop() is about to return from a Lock pulse with both pins Released
C6_Witness ==
  /\ pc = "return"
  /\ Gpio(LOCK_PIN, "HIGH") \in Range(log)
  /\ pin[LOCK_PIN] = "LOW"
  /\ pin[UNLOCK_PIN] = "LOW"

\* C7: "!B11" takes the Lock branch, "!B21" the Unlock branch, and the release
\* frames "!B10" and "!B20" take neither and touch no relay pin.
C7_ControllerFrames ==
  Dispatched =>
    /\ cmd = S_B11 => Taken = "Lock"
    /\ cmd = S_B21 => Taken = "Unlock"
    /\ cmd \in {S_B10, S_B20} =>
         /\ Taken = "Silent"
         /\ \A k \in 1..Len(log) : ~IsRelayEvent(log[k])

\* the release frame of button 1 has been processed as a no-op
C7_Witness ==
  /\ pc = "return"
  /\ cmd = S_B10
  /\ Taken = "Silent"

\* C8: a trimmed frame without a controller press token takes the Lock branch
\* iff it is "lock" or "1" and the Unlock branch iff it is "unlock" or "2".
C8_TextFrames ==
  (Dispatched /\ indexOf(cmd, S_B11) < 0 /\ indexOf(cmd, S_B21) < 0) =>
    /\ Taken = "Lock" <=> cmd \in {S_lock, S_1}
    /\ Taken = "Unlock" <=> cmd \in {S_unlock, S_2}

\* " unlock" has been trimmed and runs the Unlock pulse
C8_Witness ==
  /\ pc = "unlock_delay"
  /\ cmd = S_unlock
  /\ raw # cmd

\* the relay events of an actuation
LockRelayEvents == << Gpio(LOCK_PIN, "HIGH"), Gpio(LOCK_PIN, "LOW") >>

UnlockRelayEvents == << Gpio(UNLOCK_PIN, "HIGH"), Gpio(UNLOCK_PIN, "LOW") >>

LockOrder ==
  << Tx(<<"Locking...">>), Gpio(STATUS_LED, "HIGH"), Gpio(LOCK_PIN, "HIGH"),
     Gpio(LOCK_PIN, "LOW"), Gpio(STATUS_LED, "LOW"), Tx(<<"Locked!">>) >>

UnlockOrder ==
  << Tx(<<"Unlocking...">>), Gpio(STATUS_LED, "HIGH"), Gpio(UNLOCK_PIN, "HIGH"),
     Gpio(UNLOCK_PIN, "LOW"), Gpio(STATUS_LED, "LOW"), Tx(<<"Unlocked!">>) >>

\* C10: the effects of an actuation happen in the order indicator on, pin
\* asserted, pin released, indicator off, completion line; once the completion
\* line is out, the relay pin and the indicator are off.
C10_EffectOrder ==
  /\ (Dispatched /\ Taken = "Lock") => IsPrefix(SelectSeq(log, IsEffect), LockOrder)
  /\ (Dispatched /\ Taken = "Unlock") => IsPrefix(SelectSeq(log, IsEffect), UnlockOrder)
  /\ (Tx(<<"Locked!">>) \in Range(log) \/ Tx(<<"Unlocked!">>) \in Range(log)) =>
       \A p \in Pins : ~Asserted(p)
  /\ \A p \in {LOCK_PIN, UNLOCK_PIN} : Asserted(p) => Asserted(STATUS_LED)

\* the pin is released and the indicator is off, the completion line is still to come
C10_Witness ==
  /\ pc = "lock_complete"
  /\ SelectSeq(log, IsEffect) = SubSeq(LockOrder, 1, 5)
  /\ \A p \in Pins : ~Asserted(p)

(* --------------------- claims on the decoding of cmd ------------------- *)
PressTokens == {S_B11, S_B21, S_B31, S_B41}

TextCommands == {S_lock, S_1, S_unlock, S_2}

HelpLines ==
  << Tx(<<"Commands: lock, unlock, 1, 2">>), Tx(<<"Or use Controller buttons 1-2">>) >>

IsTx(e) == e.ch = "tx"

\* c holds a press token, but not at its start
TokenOnlyInside(c) ==
  /\ \E t \in PressTokens : indexOf(c, t) > 0
  /\ \A t \in PressTokens : indexOf(c, t) # 0
  /\ c \notin TextCommands

\* C11: a frame that holds a press token only at a non-prefix position is
\* Unrecognized and causes no relay actuation.
C11_PrefixExactTokens ==
  (Dispatched /\ TokenOnlyInside(cmd)) =>
    /\ Taken \in {"Help", "Silent"}
    /\ \A k \in 1..Len(log) : ~IsRelayEvent(log[k])

\* C12: a frame that is "lock" or "unlock" but for the case of its letters
\* gets the usage hint and no relay actuation.
C12_CaseSensitive ==
  (Dispatched /\ cmd # toLowerCase(cmd) /\ toLowerCase(cmd) \in {S_lock, S_unlock}) =>
    /\ Taken = "Help"
    /\ \A k \in 1..Len(log) : ~IsRelayEvent(log[k])
    /\ \A p \in {LOCK_PIN, UNLOCK_PIN} : ~Asserted(p)
    /\ pc = "return" /\ SelectSeq(log, IsTx) = HelpLines

\* "unLock" has been answered with the usage hint
C12_Witness ==
  /\ pc = "return"
  /\ cmd = <<"u", "n", "L", "o", "c", "k">>
  /\ SelectSeq(log, IsTx) = HelpLines

IsSilentFrame(c) ==
  \/ c = <<>>
  \/ (c[1] = "!" /\ \A t \in PressTokens : indexOf(c, t) < 0)

C15_NotAssignedOnChannel ==
  (pc = "return" /\ Branch(cmd) = "Unassigned") =>
    \E k \in 1..Len(log) : log[k].ch = "tx"

\* C16: a press frame of button 3 or 4 without a Lock or Unlock token is
\* neither an Action nor Unrecognized-with-help: no relay pin is written or
\* asserted and the usage hint is not sent.
C16_UnassignedIsDistinct ==
  ( /\ Dispatched
    /\ (indexOf(cmd, S_B31) >= 0 \/ indexOf(cmd, S_B41) >= 0)
    /\ indexOf(cmd, S_B11) < 0
    /\ indexOf(cmd, S_B21) < 0 ) =>
    /\ Taken = "Unassigned"
    /\ pc = "return"
    /\ \A k \in 1..Len(log) : ~IsRelayEvent(log[k])
    /\ \A k \in 1..Len(log) : log[k] \notin Range(HelpLines)
    /\ \A p \in {LOCK_PIN, UNLOCK_PIN} : ~Asserted(p)

\* "!B41" has been recognized and nothing was actuated
C16_Witness ==
  /\ pc = "return"
  /\ cmd = S_B41
  /\ Ser(<<"Button not assigned">>) \in Range(log)

(* -------------------------- claims on the Gate -------------------------- *)
\* the most recent callback was pairing_passkey_callback
IsPairingOut(o) == o # <<>> /\ o[1] = Ser(<<"  PAIRING REQUEST">>)

\* the most recent callback was secured_callback
IsSecuredOut(o) ==
  o # <<>> /\ o[1] = Ser(<<"Connection secured (encrypted & authenticated)">>)

\* C17: pairing_passkey_callback returns true whatever its arguments and the
\* Gate state, so a pairing that has been asked for is never rejected.
C17_PasskeyAlwaysAccepted ==
  /\ IsPairingOut(cbOut) => accept
  /\ gate = "PairingInProgress" => accept

\* the callback has run and accepted on a channel that was already Authenticated
C17_Witness ==
  /\ IsPairingOut(cbOut)
  /\ accept
  /\ gate = "Authenticated"

\* C18: once the Gate is Authenticated it stays so until the disconnect: no
\* frame, actuation, passkey callback or secured callback moves it elsewhere.
C18_AuthenticatedIsTerminal ==
  /\ [][gate = "Authenticated" => gate' \in {"Authenticated", "Disconnected"}]_vars
  /\ [][(gate = "Authenticated" /\ gate' = "Disconnected") =>
          cbOut' = << Ser(<<"BLE Disconnected">>) >>]_vars
  /\ [][(gate = "Authenticated" /\ gate' = "Authenticated") => is_authorized']_vars

\* an Authenticated channel has had a frame carried out and a further pairing
\* request shown
C18_Witness ==
  /\ gate = "Authenticated"
  /\ IsPairingOut(cbOut)
  /\ pc = "return"
  /\ Tx(<<"Locked!">>) \in Range(log)

Rank(g) ==
  CASE g = "Disconnected" -> 0
    [] g = "Unauthenticated" -> 1
    [] g = "PairingInProgress" -> 2
    [] g = "Authenticated" -> 3

\* C19 as stated: within a connection the Gate only moves forward, the pairing
\* request takes Unauthenticated to PairingInProgress, and Authenticated is
\* entered from PairingInProgress only.
C19_SecuredOnlyFromPairing ==
  /\ [][gate' \notin {gate, "Disconnected"} => Rank(gate) < Rank(gate')]_vars
  /\ [][(gate = "Unauthenticated" /\ IsPairingOut(cbOut')) =>
          gate' = "PairingInProgress"]_vars
  /\ [][(gate # "Authenticated" /\ gate' = "Authenticated") =>
          gate = "PairingInProgress"]_vars

\* C19 amended: within a connection the Gate only moves forward, the pairing
\* request takes Unauthenticated to PairingInProgress, and Authenticated is
\* entered from PairingInProgress, or straight from Unauthenticated when the
\* peer is bonded.
C19_ForwardOnly ==
  /\ [][gate' \notin {gate, "Disconnected"} => Rank(gate) < Rank(gate')]_vars
  /\ [][(gate = "Unauthenticated" /\ IsPairingOut(cbOut')) =>
          gate' = "PairingInProgress"]_vars
  /\ [][(gate # "Authenticated" /\ gate' = "Authenticated") =>
          /\ IsSecuredOut(cbOut')
          /\ \/ gate = "PairingInProgress" /\ accept
             \/ gate = "Unauthenticated" /\ bonded]_vars

\* a bonded peer has been secured on a connection that never saw a passkey
C19_Witness ==
  /\ gate = "Authenticated"
  /\ IsSecuredOut(cbOut)
  /\ ~accept

TxCount(o) == Len(SelectSeq(o, IsTx))

GateStates == {"Disconnected", "Unauthenticated", "PairingInProgress", "Authenticated"}

\* what loop() does on the relay pins, the indicator and the channel for a
\* frame of each class
EffectsOf(b) ==
  CASE b = "Lock" -> LockOrder
    [] b = "Unlock" -> UnlockOrder
    [] b = "Help" -> HelpLines
    [] OTHER -> << >>

PinOf(b) == IF b = "Lock" THEN LOCK_PIN ELSE UNLOCK_PIN

\* number of pulses of pin p among the effects in l
PulseCount(l, p) == Len(SelectSeq(l, LAMBDA e : e = Gpio(p, "HIGH")))

\* the frames of one read that arrived during a pulse and decode to b
BusyFrames(b) ==
  { k \in 1..Len(rawFrames) : rawFrames[k].busy /\ Branch(trim(rawFrames[k].f)) = b }

\* C22: a command that arrives while a relay pin is asserted is not read
\* during the pulse, and it is not lost: when loop() returns from the read that
\* took it, every Action frame that had arrived during a pulse has had a
\* pulse of its own.
C22_QueuedCommandsAllAct ==
  /\ [][PulseActive => raw' = raw]_vars
  /\ [](pc = "return" =>
          \A b \in {"Lock", "Unlock"} :
            PulseCount(log, PinOf(b)) >= Cardinality(BusyFrames(b)))

\* the flattening of a sequence of effect sequences
RECURSIVE Flatten(_)
Flatten(q) == IF q = << >> THEN << >> ELSE Head(q) \o Flatten(Tail(q))

\* the effects of processing each frame of one read to completion, in the
\* order the frames arrived
FifoEffects ==
  Flatten([k \in 1..Len(rawFrames) |-> EffectsOf(Branch(trim(rawFrames[k].f)))])

\* C23: frames are processed one at a time in arrival order: what loop() has
\* done when it returns is what processing each received frame to completion,
\* in FIFO order, does.
C23_FifoOneAtATime ==
  pc = "return" => SelectSeq(log, IsEffect) = FifoEffects

\* C24: the processing of every frame terminates: once loop() has read a
\* frame, in whatever state the channel is or comes to be, loop() returns and
\* the main task is idle again, with nothing left of the frame.
C24_FrameTerminates ==
  (pc = "dispatch") ~> (pc = "idle" /\ raw = << >> /\ ~PulseActive)

\* loop() is about to return from a release token it ignored, the channel
\* having disconnected with another frame still queued
C24_Witness ==
  /\ pc = "return"
  /\ raw = S_B10
  /\ Taken = "Silent"
  /\ gate = "Disconnected"
  /\ rx # << >>

\* line l carries the digits of passkey pk
CarriesPasskey(l, pk) == indexOf(l, pk) >= 0

\* C25: the passkey is shown on the serial console only: no line sent on the
\* wireless channel, by a callback or by loop(), carries the digits of a
\* passkey.
C25_PasskeyNotOnChannel ==
  \A e \in Range(cbOut) \cup Range(log) :
    IsTx(e) => \A pk \in Passkeys : ~CarriesPasskey(e.txt, pk)

\* C26: the usage hint is sent without any authorization check: a frame that
\* is not empty, does not start with "!" and is no command is answered with
\* the two help lines in whatever Gate state loop() finds the channel, and the
\* step that sends them is taken whatever the Gate state is.
C26_HintInEveryGateState ==
  \A g \in GateStates :
    (gate = g /\ pc = "return" /\ Branch(cmd) = "Help") =>
      SelectSeq(log, IsTx) = HelpLines

\* "Lock" has been answered with the hint on a channel that has not paired
C26_Witness ==
  /\ pc = "return"
  /\ gate = "Unauthenticated"
  /\ raw = <<"L", "o", "c", "k">>
  /\ SelectSeq(log, IsTx) = HelpLines

IsPadding(q) == \A k \in 1..Len(q) : IsSpace(q[k])

\* r is SubSeq(r, i, j) with whitespace before and after it, and SubSeq(r, i, j)
\* neither starts nor ends with whitespace
IsPadded(r, i, j) ==
  /\ i <= j + 1
  /\ IsPadding(SubSeq(r, 1, i - 1))
  /\ IsPadding(SubSeq(r, j + 1, Len(r)))
  /\ i <= j => (~IsSpace(r[i]) /\ ~IsSpace(r[j]))

\* C27: whitespace around a frame does not change how it is decoded: a frame
\* read as padding, f, padding takes the branch that f takes when it is
\* matched as it is.
C27_PaddingIgnored ==
  Dispatched =>
    \A i \in 1..(Len(raw) + 1), j \in 0..Len(raw) :
      IsPadded(raw, i, j) => Taken = Branch(SubSeq(raw, i, j))

\* " lock\n" has been taken as Lock
C27_Witness ==
  /\ Dispatched
  /\ raw = <<" ">> \o S_lock \o <<"\n">>
  /\ Taken = "Lock"

\* the button tokens of the controller app: "!B", button digit, press (1) or
\* release (0)
ControllerTokens ==
  { <<"!", "B", n, st>> : n \in {"1", "2", "3", "4"}, st \in {"0", "1"} }

\* C28: one checksum byte after a controller token is ignored: the frame
\* token + c takes the branch the token alone takes, for every token and byte.
C28_ChecksumByteIgnored ==
  (Dispatched /\ Len(raw) = 5 /\ SubSeq(raw, 1, 4) \in ControllerTokens) =>
    Taken = Branch(SubSeq(raw, 1, 4))

\* "!B11" followed by the byte "x" has been taken as Lock
C28_Witness ==
  /\ pc = "return"
  /\ raw = S_B11 \o <<"x">>
  /\ SelectSeq(log, IsRelayEvent) = LockRelayEvents

RelayPins == {LOCK_PIN, UNLOCK_PIN}

\* C29: once setup() has initialised the pins, a relay pin changes only in a
\* step of pressLock() or pressUnlock(), run for a frame that decodes to that
\* action, and that step changes only the pin of its action: no callback of
\* the stack and no other branch of loop() changes a relay pin.
C29_OnlyActuatorWritesRelayPins ==
  [][(pc # "setup" /\ \E p \in RelayPins : pin'[p] # pin[p]) =>
       /\ UNCHANGED <<gate, link, bonded, accept, attErr, cbOut, rx>>
       /\ \/ /\ pc \in {"lock_assert", "lock_delay"}
             /\ Branch(cmd) = "Lock"
             /\ pin'[UNLOCK_PIN] = pin[UNLOCK_PIN]
          \/ /\ pc \in {"unlock_assert", "unlock_delay"}
             /\ Branch(cmd) = "Unlock"
             /\ pin'[LOCK_PIN] = pin[LOCK_PIN]]_vars

\* the channel has disconnected during a pulse and the pin is still asserted
C29_Witness ==
  /\ PulseActive
  /\ gate = "Disconnected"
  /\ cbOut = << Ser(<<"BLE Disconnected">>) >>

\* C30: no frame is acted on after the connection it came in on has ended: a
\* relay pin is never asserted for a command whose connection has
\* disconnected since, whether the command was still in the RX FIFO or
\* already read when the channel went away.
C30_NoActuationForEndedConnection ==
  [][(\E p \in RelayPins : ~Asserted(p) /\ Asserted(p)') => ~cmdStale]_vars

\* the data of one read matches the Lock test of line 195
LockMatch(c) == indexOf(c, S_B11) >= 0 \/ c = S_lock \/ c = S_1

\* the data of one read matches the Unlock test of line 199
UnlockMatch(c) == indexOf(c, S_B21) >= 0 \/ c = S_unlock \/ c = S_2

\* C31: one read triggers at most one actuation, chosen by a fixed
\* precedence: data with a Lock match pulses Lock only, whatever else it
\* holds; Unlock is pulsed only for data with an Unlock match and no Lock
\* match; the unassigned and help branches are taken only when neither
\* matches.
C31_OneActuationByPrecedence ==
  Dispatched =>
    /\ PulseCount(log, LOCK_PIN) + PulseCount(log, UNLOCK_PIN) <= 1
    /\ LockMatch(cmd) => (Taken = "Lock" /\ PulseCount(log, UNLOCK_PIN) = 0)
    /\ Taken = "Lock" => LockMatch(cmd)
    /\ Taken = "Unlock" <=> (UnlockMatch(cmd) /\ ~LockMatch(cmd))
    /\ Taken \in {"Unassigned", "Help"} => (~LockMatch(cmd) /\ ~UnlockMatch(cmd))
    /\ pc = "return" =>
         /\ Taken = "Lock" => SelectSeq(log, IsRelayEvent) = LockRelayEvents
         /\ Taken = "Unlock" => SelectSeq(log, IsRelayEvent) = UnlockRelayEvents

\* one read held an Unlock token and then a Lock token, and Lock alone was
\* pulsed
C31_Witness ==
  /\ pc = "return"
  /\ raw = S_B21 \o S_B11
  /\ SelectSeq(log, IsRelayEvent) = LockRelayEvents

\* this step is a callback of the stack or a write of the peer
IsStackStep ==
  \/ <<gate, link, bonded, accept, attErr, cbOut>>' # <<gate, link, bonded, accept, attErr, cbOut>>
  \/ (rx' # rx /\ rx' # << >>)

\* C32: a callback that runs during a pulse neither cancels the pulse nor
\* leaves it stuck: no callback changes a pin, the indicator or the position
\* of the main task; a relay pin is released only when its hold time is over;
\* and a pulse during which the channel has disconnected does end.
C32_CallbackLeavesPulseAlone ==
  /\ [][IsStackStep => (pin' = pin /\ pc' = pc /\ elapsed' = elapsed)]_vars
  /\ [][(\E p \in RelayPins : Asserted(p) /\ ~Asserted(p)') =>
          (elapsed >= HoldDeadlineMs /\ pc \in {"lock_delay", "unlock_delay"})]_vars
  /\ ((PulseActive /\ gate = "Disconnected") ~> ~PulseActive)

\* the pin has just been released after its hold, on a channel that took a
\* write during the pulse and has disconnected
C32_Witness ==
  /\ pc = "lock_led_off"
  /\ ~PulseActive
  /\ gate = "Disconnected"
  /\ rxStale
  /\ \E k \in 1..Len(rxFrames) : rxFrames[k].busy

\* this step is a step of setup(), loop() or of time in a delay
IsMainStep == <<pc, elapsed>>' # <<pc, elapsed>>

SetupDone == pc \in {"idle", "dispatch", "return"} \cup LockPcs \cup UnlockPcs

\* C34: after setup the status LED brackets every pulse: while a relay pin is
\* asserted the LED is on, and while loop() is idle, or has not yet entered an
\* actuation, the LED is off.
C34_LedBracketsPulse ==
  SetupDone =>
    /\ PulseActive => Asserted(STATUS_LED)
    /\ pc \in {"idle", "dispatch", "return", "pressLock", "pressUnlock"} =>
         pin[STATUS_LED] = "LOW"

\* loop() is idle again, with the LED off, after a pulse during which a frame
\* arrived on a channel that has disconnected since
C34_Witness ==
  /\ pc = "idle"
  /\ pin[STATUS_LED] = "LOW"
  /\ cmdStale = FALSE
  /\ rxStale
  /\ \E k \in 1..Len(rxFrames) : rxFrames[k].busy

====
